---- MODULE Spec2Model ----
(***************************************************************************)
(* Transcript segmentation, highlight selection and subtitle formatting of *)
(* utils/content_analyzer.py and utils/srt_converter.py.                   *)
(*                                                                         *)
(* Times are integers counting ticks of 50 ms (20 ticks = 1 second), so    *)
(* that the thresholds of the code (0.7 s, 1.5 s) and the halves it takes  *)
(* (padding_needed / 2, the middle of a clip) are exact.                   *)
(***************************************************************************)
EXTENDS Integers, Sequences, FiniteSets, TLC

VARIABLES
    entry,             \* the function under call
    pc,                \* "call" before the call, "done" after it returned
    all_words,         \* the word records of the transcript alternative
    full_transcript,   \* the transcript text of the alternative
    max_clips,         \* the max_clips argument
    segments,          \* _create_meaningful_segments: first-pass segments
    merged_segments,   \* _create_meaningful_segments: the returned list
    scored_segments,   \* the list passed to _select_top_segments
    selected_segments, \* the list _select_top_segments returned
    adjust_input,      \* the list passed to _adjust_clip_durations
    adjusted_segments, \* the list _adjust_clip_durations returned
    result,            \* the list analyze_transcript returned
    transcription_result, \* the argument of convert_to_srt
    srt_content,       \* convert_to_srt: the entries when the file is written
    srt_file,          \* the text convert_to_srt wrote to output_path
    caught,            \* the message of the exception caught, "" if none
    transcript_data,   \* the argument of analyze_transcript
    raised,            \* the exception analyze_transcript let through, "" if none
    score_input,       \* the list passed to _score_segments
    caption_segments,  \* the list _create_caption_segments returned
    seconds,           \* the argument of format_timestamp
    timestamp          \* the string format_timestamp returned

srtVars == <<transcription_result, srt_content, srt_file, caught>>

tsVars == <<seconds, timestamp>>

vars == <<entry, pc, all_words, full_transcript, max_clips, segments,
          merged_segments, scored_segments, selected_segments, adjust_input,
          adjusted_segments, result, srtVars, transcript_data, raised,
          score_input, caption_segments, tsVars>>

-----------------------------------------------------------------------------
(* Bounds of the model *)

MaxWords == 7      \* longest freely chosen word sequence
MaxRuns == 3       \* most runs of evenly spaced words in a long stream
MaxClips == 2      \* largest max_clips
MaxSegs == 3       \* longest list handed to _select_top_segments
MaxAdjust == 2     \* longest list handed to _adjust_clip_durations
MaxSentences == 2  \* most sentences of a paragraph
MaxParagraphs == 2 \* most paragraphs of a transcript
MaxSrtWords == 3   \* most words of a transcript without paragraphs
MaxScoreSegs == 4  \* longest list handed to _score_segments alone
MaxCaptionWords == 4 \* longest freely chosen caption word sequence
MaxCaptionRun == 12  \* longest run of unpunctuated caption words

(* Program constants, in ticks *)

MIN_WORDS == 5         \* len(current_segment["words"]) > 5
PAUSE == 30            \* 1.5 s
MERGE_SPAN == 900      \* 45 s
MIN_SCORED == 200      \* 10 s
MIN_CLIP == 300        \* 15 s
MAX_CLIP == 1200       \* 60 s
HALF_CLIP == 600       \* 30 s
BASE_LONG == 1800      \* 90 s
CONTENT_CAP == 10      \* min(content_score, 10)
BUFFER == 20           \* 1 s
SRT_PAUSE == 14        \* 0.7 s
max_words == 10        \* words of a caption line

None == "None"

-----------------------------------------------------------------------------
(* Word streams *)

\* A freely chosen word: its text, the gap after the previous word's end
\* (0 s or 2 s) and its length (1 s).
WordChoices == [word : {"", "a"}, gap : {0, 40}, dur : {20}]

\* A run of n evenly spaced words without gaps between them, `gap` after
\* the previous run: 5 or 6 words of 1 s or of 6 s each, 0 s or 2 s after
\* the run before.
RunChoices == [n : {5, 6}, gap : {0, 40}, dur : {20, 120}]

RECURSIVE Timed(_, _, _)
\* The word records of a sequence of word choices, laid out from time `t`.
Timed(choices, i, t) ==
    IF i > Len(choices) THEN <<>>
    ELSE LET c == choices[i]
             w == [word |-> c.word, start |-> t + c.gap,
                   end |-> t + c.gap + c.dur]
         IN <<w>> \o Timed(choices, i + 1, w.end)

RECURSIVE RunWords(_, _)
\* The word choices of a run: the gap before its first word only.
RunWords(r, k) ==
    IF k > r.n THEN <<>>
    ELSE <<[word |-> "a", gap |-> IF k = 1 THEN r.gap ELSE 0, dur |-> r.dur]>>
         \o RunWords(r, k + 1)

RECURSIVE Flatten(_, _)
Flatten(runs, i) ==
    IF i > Len(runs) THEN <<>>
    ELSE RunWords(runs[i], 1) \o Flatten(runs, i + 1)

SeqsUpTo(S, n) == UNION {[1..k -> S] : k \in 0..n}

FreeStreams == {Timed(c, 1, 0) : c \in SeqsUpTo(WordChoices, MaxWords)}
RunStreams == {Timed(Flatten(r, 1), 1, 0) : r \in SeqsUpTo(RunChoices, MaxRuns)}

-----------------------------------------------------------------------------
(* _create_meaningful_segments *)

\* A segment holds its words by their positions in all_words (the code
\* holds references to the same word dicts).
NewSegment == [text |-> "", start |-> None, end |-> None, words |-> <<>>]

\* d.get(key, default)
Get(d, key, default) == IF key \in DOMAIN d THEN d[key] ELSE default

\* A closing segment ending with the word that opens the next one.
ClosingEndAtWord(words, i) == Get(words[i], "end", 0)

\* The end a segment takes when a pause closes it: the end of the word
\* before the pause.
ClosingEnd(words, i) == Get(words[i - 1], "end", 0)

\* One iteration of the first-pass loop over word i (1-based); st is the
\* pair of current_segment and segments.
FirstPassStep(words, i, st) ==
    LET word == words[i]
        word_text == Get(word, "word", "")
        word_start == Get(word, "start", 0)
        cur == st.current_segment
    IN IF cur.text = ""
       THEN [st EXCEPT !.current_segment =
                [cur EXCEPT !.text = word_text, !.start = word_start,
                            !.words = Append(cur.words, i)]]
       ELSE IF i > 1 /\ word_start - Get(words[i - 1], "end", 0) > PAUSE
       THEN LET closed == [cur EXCEPT !.end = ClosingEnd(words, i)]
            IN [current_segment |->
                    [text |-> word_text, start |-> word_start,
                     end |-> None, words |-> <<i>>],
                segments |->
                    IF Len(cur.words) > MIN_WORDS
                    THEN Append(st.segments, closed) ELSE st.segments]
       ELSE [st EXCEPT !.current_segment =
                [cur EXCEPT !.text = cur.text \o " " \o word_text,
                            !.words = Append(cur.words, i)]]

RECURSIVE FirstPassLoop(_, _, _)
FirstPassLoop(words, i, st) ==
    IF i > Len(words) THEN st
    ELSE FirstPassLoop(words, i + 1, FirstPassStep(words, i, st))

\* The first pass: pause-based segments, the final segment included.
FirstPass(words) ==
    LET st == FirstPassLoop(words, 1,
                  [current_segment |-> NewSegment, segments |-> <<>>])
        cur == st.current_segment
    IN IF cur.text # "" /\ Len(cur.words) > MIN_WORDS
       THEN Append(st.segments,
                   [cur EXCEPT !.end =
                       Get(words[cur.words[Len(cur.words)]], "end", 0)])
       ELSE st.segments

\* A merge pass that absorbs nothing.
MergeTestNever(temp_segment, segment) == FALSE

\* Whether the merge pass absorbs `segment` into temp_segment.
MergeTest(temp_segment, segment) ==
    segment.end - temp_segment.start < MERGE_SPAN

RECURSIVE MergeLoop(_, _, _, _)
\* The second-pass loop; temp is <<>> (temp_segment is None) or holds the
\* accumulator segment.
MergeLoop(segs, j, temp, merged) ==
    IF j > Len(segs)
    THEN merged \o temp
    ELSE LET segment == segs[j]
         IN IF temp = <<>>
            THEN MergeLoop(segs, j + 1, <<segment>>, merged)
            ELSE IF MergeTest(temp[1], segment)
            THEN MergeLoop(segs, j + 1,
                     <<[temp[1] EXCEPT
                          !.text = temp[1].text \o " " \o segment.text,
                          !.end = segment.end,
                          !.words = temp[1].words \o segment.words]>>,
                     merged)
            ELSE MergeLoop(segs, j + 1, <<segment>>, merged \o temp)

\* A merge pass that returns the first-pass segments as they are.
MergePassSkipped(segs) == segs

MergePass(segs) == MergeLoop(segs, 1, <<>>, <<>>)

_create_meaningful_segments(words) == MergePass(FirstPass(words))

-----------------------------------------------------------------------------
(* _score_segments *)

topic_keywords ==
    <<"main point", "important", "key", "critical", "essential",
      "significant", "highlight", "conclusion", "therefore", "summary",
      "ethics", "philosophy", "framework", "theory", "concept", "principle",
      "foundation", "structure", "understanding", "analysis", "explanation">>

\* keyword in text
Contains(text, keyword) ==
    \E i \in 1..(Len(text) - Len(keyword) + 1) :
        SubSeq(text, i, i + Len(keyword) - 1) = keyword

LowerChar(c) ==
    CASE c = "A" -> "a" [] c = "E" -> "e" [] c = "I" -> "i"
      [] c = "K" -> "k" [] c = "S" -> "s" [] c = "T" -> "t"
      [] OTHER -> c

RECURSIVE Lower(_)
\* str.lower(), on the capitals the word texts of the model use
Lower(text) ==
    IF text = "" THEN ""
    ELSE LowerChar(SubSeq(text, 1, 1)) \o Lower(SubSeq(text, 2, Len(text)))

AnyPhrase(text, phrases) == \E p \in phrases : Contains(Lower(text), p)

_generate_segment_description(text) ==
    IF AnyPhrase(text, {"introduce", "welcome", "begin", "start", "first"})
    THEN "Introduces key concepts and context"
    ELSE IF AnyPhrase(text, {"conclusion", "therefore", "finally", "summary",
                             "thus"})
    THEN "Summarizes key points and conclusions"
    ELSE IF AnyPhrase(text, {"example", "instance", "for instance",
                             "illustrate", "demonstrate"})
    THEN "Provides illustrative example of key concepts"
    ELSE IF AnyPhrase(text, {"important", "critical", "essential",
                             "key point", "main point"})
    THEN "Presents critical information and core concepts"
    ELSE "Contains relevant content for understanding the topic"

Min(a, b) == IF a < b THEN a ELSE b
Max(a, b) == IF a > b THEN a ELSE b

\* A base score that is the same for every duration.
BaseScoreFlat(duration) == 5

BaseScore(duration) ==
    IF MIN_CLIP <= duration /\ duration <= MAX_CLIP THEN 5
    ELSE IF MAX_CLIP < duration /\ duration <= BASE_LONG THEN 3
    ELSE 1

ContentScore(segment_text) ==
    Min(2 * Cardinality({k \in DOMAIN topic_keywords :
                            Contains(segment_text, topic_keywords[k])}),
        CONTENT_CAP)

\* The index (0-based) of the first segment whose text equals the text of
\* `segment`, -1 when there is none.
SegmentIndex(segs, segment) ==
    LET hits == {i \in DOMAIN segs : segs[i].text = segment.text}
    IN IF hits = {} THEN -1
       ELSE (CHOOSE i \in hits : \A j \in hits : i <= j) - 1

\* rel_position = segment_index / len(segments) against 0.3, 0.4, 0.6, 0.7
PositionScore(segs, segment) ==
    LET segment_index == SegmentIndex(segs, segment)
        n == Len(segs)
    IN IF segment_index = 0 THEN 5
       ELSE IF segment_index = n - 1 THEN 5
       ELSE IF \/ (3 * n <= 10 * segment_index /\ 10 * segment_index <= 4 * n)
               \/ (6 * n <= 10 * segment_index /\ 10 * segment_index <= 7 * n)
       THEN 3
       ELSE 0

ScoreOne(segs, segment) ==
    LET segment_text == Lower(segment.text)
        duration == segment.end - segment.start
    IN [text |-> segment.text,
        start_time |-> segment.start,
        end_time |-> segment.end,
        duration |-> duration,
        importance_score |-> BaseScore(duration) + ContentScore(segment_text)
                             + PositionScore(segs, segment),
        description |-> _generate_segment_description(segment_text)]

\* A loop that skips no segment.
TooShortNever(duration) == FALSE

\* if duration < 10: continue
TooShort(duration) == duration < MIN_SCORED

RECURSIVE ScoreLoop(_, _)
\* The scoring loop: segments under 10 s are skipped.
ScoreLoop(segs, j) ==
    IF j > Len(segs) THEN <<>>
    ELSE (IF TooShort(segs[j].end - segs[j].start) THEN <<>>
          ELSE <<ScoreOne(segs, segs[j])>>) \o ScoreLoop(segs, j + 1)

RECURSIVE InsertKeyed(_, _)
\* The pair x = <<key, record>> put into the sorted list q of such pairs,
\* after every pair whose key is not greater.
InsertKeyed(q, x) ==
    IF q = <<>> THEN <<x>>
    ELSE IF x[1] < q[1][1] THEN <<x>> \o q
    ELSE <<q[1]>> \o InsertKeyed(Tail(q), x)

RECURSIVE SortKeyed(_)
SortKeyed(q) ==
    IF q = <<>> THEN <<>>
    ELSE InsertKeyed(SortKeyed(SubSeq(q, 1, Len(q) - 1)), q[Len(q)])

\* list.sort(key=...): the records in ascending order of their keys, equal
\* keys in their order in q (the sort is stable).
StableSort(q, keys) ==
    LET sorted == SortKeyed([n \in DOMAIN q |-> <<keys[n], q[n]>>])
    IN [n \in DOMAIN sorted |-> sorted[n][2]]

\* An ascending sort turned around: descending, equal scores in the reverse
\* of their order of emission.
SortByScoreReversed(q) ==
    LET up == StableSort(q, [n \in DOMAIN q |-> q[n].importance_score])
    IN [n \in DOMAIN up |-> up[Len(up) + 1 - n]]

\* scored_segments.sort(key=importance_score, reverse=True): descending,
\* equal scores in their order of emission.
SortByScore(q) ==
    StableSort(q, [n \in DOMAIN q |-> 0 - q[n].importance_score])

_score_segments(segs) == SortByScore(ScoreLoop(segs, 1))

-----------------------------------------------------------------------------
(* _select_top_segments *)

Overlaps(a, b) == a.start_time < b.end_time /\ a.end_time > b.start_time

RECURSIVE GreedyLoop(_, _, _, _)
\* The greedy pass over scored_segments[1:].
GreedyLoop(scored, j, k, selected) ==
    IF j > Len(scored) \/ Len(selected) >= k THEN selected
    ELSE GreedyLoop(scored, j + 1, k,
             IF \E n \in DOMAIN selected : Overlaps(scored[j], selected[n])
             THEN selected ELSE Append(selected, scored[j]))

\* One overlapping selected segment applied to the candidate.
AdjustFor(adjusted_segment, overlap) ==
    LET a1 == IF /\ adjusted_segment.start_time >= overlap.start_time
                 /\ adjusted_segment.start_time < overlap.end_time
              THEN [adjusted_segment EXCEPT
                       !.start_time = overlap.end_time + BUFFER]
              ELSE adjusted_segment
        a2 == IF /\ a1.end_time > overlap.start_time
                 /\ a1.end_time <= overlap.end_time
              THEN [a1 EXCEPT !.end_time = overlap.start_time - BUFFER]
              ELSE a1
    IN [a2 EXCEPT !.duration = a2.end_time - a2.start_time]

RECURSIVE AdjustLoop(_, _, _)
AdjustLoop(adjusted_segment, overlaps, n) ==
    IF n > Len(overlaps) THEN adjusted_segment
    ELSE AdjustLoop(AdjustFor(adjusted_segment, overlaps[n]), overlaps, n + 1)

\* The selected segments the candidate overlaps, in selection order.
OverlapsOf(segment, selected) ==
    SelectSeq(selected, LAMBDA sel : Overlaps(segment, sel))

\* A repair pass that admits every adjusted candidate.
AdmitsAll(adjusted_segment) == TRUE

\* Whether the repair pass admits the adjusted candidate.
Admits(adjusted_segment) == adjusted_segment.duration >= MIN_CLIP

\* Writes made in place: the record of the input list is the written one.
AfterAlias(segment, written) == written

\* segment.copy(): the writes go to the copy, and the record of the input
\* list stays as it was.
AfterCopy(segment, written) == segment

RECURSIVE RepairScan(_, _)
\* One scan of the repair pass over scored_segments from position j; st
\* holds the selection and the input list.  The first admitted candidate is
\* appended to the selection, or none.
RepairScan(st, j) ==
    IF j > Len(st.scored) THEN st
    ELSE IF \E n \in DOMAIN st.selected : st.selected[n] = st.scored[j]
    THEN RepairScan(st, j + 1)
    ELSE LET overlaps == OverlapsOf(st.scored[j], st.selected)
             adjusted_segment == AdjustLoop(st.scored[j], overlaps, 1)
             after == [st EXCEPT !.scored[j] =
                          AfterCopy(st.scored[j], adjusted_segment)]
         IN IF overlaps = <<>>
            THEN [after EXCEPT !.selected = Append(@, adjusted_segment)]
            ELSE IF Admits(adjusted_segment)
            THEN [after EXCEPT !.selected = Append(@, adjusted_segment)]
            ELSE RepairScan(after, j + 1)

RECURSIVE RepairLoop(_, _)
RepairLoop(st, slots) ==
    IF slots <= 0 THEN st
    ELSE RepairLoop(RepairScan(st, 1), slots - 1)

\* A return without the final slice.
TruncateNone(selected, k) == selected

\* selected[:max_clips], for max_clips >= 0
Truncate(selected, k) == SubSeq(selected, 1, Min(k, Len(selected)))

\* A shortcut that filters the list for overlap as the greedy pass does.
ReturnDisjoint(scored) == GreedyLoop(scored, 2, Len(scored), <<scored[1]>>)

\* return scored_segments: the list as it is.
ReturnAll(scored) == scored

\* A call of _select_top_segments: the list it returns and the input list
\* after it.
SelectRun(scored, k) ==
    IF scored = <<>> THEN [selected |-> <<>>, scored |-> scored]
    ELSE IF Len(scored) <= k
    THEN [selected |-> ReturnAll(scored), scored |-> scored]
    ELSE LET greedy == GreedyLoop(scored, 2, k, <<scored[1]>>)
             st == [selected |-> greedy, scored |-> scored]
             repaired ==
                 IF Len(greedy) < k /\ Len(greedy) < Len(scored)
                 THEN RepairLoop(st,
                          Min(k - Len(greedy), Len(scored) - Len(greedy)))
                 ELSE st
         IN [repaired EXCEPT !.selected = Truncate(@, k)]

_select_top_segments(scored, k) == SelectRun(scored, k).selected

-----------------------------------------------------------------------------
(* _adjust_clip_durations *)

\* The padded start without the clamp at 0.
PaddedStartUnclamped(start_time, padding_needed) ==
    start_time - padding_needed \div 2

\* max(0, start_time - padding_needed / 2)
PaddedStart(start_time, padding_needed) ==
    Max(0, start_time - padding_needed \div 2)

AdjustOne(segment) ==
    LET duration == segment.end_time - segment.start_time
        padding_needed == MIN_CLIP - duration
        s1 == IF duration < MIN_CLIP
              THEN PaddedStart(segment.start_time, padding_needed)
              ELSE segment.start_time
        e1 == IF duration < MIN_CLIP
              THEN segment.end_time + padding_needed \div 2
              ELSE segment.end_time
        middle == (s1 + e1) \div 2
        s2 == IF e1 - s1 > MAX_CLIP THEN middle - HALF_CLIP ELSE s1
        e2 == IF e1 - s1 > MAX_CLIP THEN middle + HALF_CLIP ELSE e1
    IN [segment EXCEPT !.start_time = s2, !.end_time = e2,
                       !.duration = e2 - s2]

_adjust_clip_durations(segs) == [n \in DOMAIN segs |-> AdjustOne(segs[n])]

\* The input list after the call: each segment is copied before the new
\* times are written.
AdjustInputAfter(segs) ==
    [n \in DOMAIN segs |-> AfterCopy(segs[n], AdjustOne(segs[n]))]

-----------------------------------------------------------------------------
(* analyze_transcript *)

\* The extraction at the head of the try block: the transcript text and
\* the words of the first alternative of the first channel, or the
\* exception an empty channels or alternatives list raises.
Extract(td) ==
    LET none == [exc |-> "", full_transcript |-> "", all_words |-> <<>>]
    IN IF ~("results" \in DOMAIN td) THEN none
       ELSE IF ~("channels" \in DOMAIN td.results) THEN none
       ELSE IF td.results.channels = <<>>
       THEN [none EXCEPT !.exc = "list index out of range"]
       ELSE IF ~("alternatives" \in DOMAIN td.results.channels[1]) THEN none
       ELSE IF td.results.channels[1].alternatives = <<>>
       THEN [none EXCEPT !.exc = "list index out of range"]
       ELSE LET alternatives == td.results.channels[1].alternatives[1]
            IN [exc |-> "",
                full_transcript |-> Get(alternatives, "transcript", ""),
                all_words |-> IF "words" \in DOMAIN alternatives
                              THEN alternatives.words ELSE <<>>]

\* A function without its except clause: the exception reaches the caller.
ExceptClauseAbsent(exc) == [result |-> <<>>, raised |-> exc]

\* except Exception as e: log the error and return [].
ExceptClause(exc) == [result |-> <<>>, raised |-> ""]

\* A return without the final sort.
SortSkipped(segs) == segs

\* selected_segments.sort(key=start_time)
SortByStart(segs) == StableSort(segs, [n \in DOMAIN segs |-> segs[n].start_time])

-----------------------------------------------------------------------------
(* _create_caption_segments *)

\* word_text.endswith((".", "!", "?"))
EndsSentence(word_text) ==
    /\ word_text # ""
    /\ SubSeq(word_text, Len(word_text), Len(word_text)) \in {".", "!", "?"}

RECURSIVE Strip(_)
\* text.strip(), of spaces
Strip(text) ==
    IF text = "" THEN ""
    ELSE IF SubSeq(text, 1, 1) = " " THEN Strip(SubSeq(text, 2, Len(text)))
    ELSE IF SubSeq(text, Len(text), Len(text)) = " "
    THEN Strip(SubSeq(text, 1, Len(text) - 1))
    ELSE text

\* "\n".join(textwrap.wrap(text.strip(), width=40)), for the texts of the
\* model, which stay under 40 characters and so on one line.
_format_caption_text(text) == Strip(text)

\* One iteration of the loop over word i; st holds current_segment,
\* caption_segments and word_count.
CaptionStep(words, i, st) ==
    LET word == words[i]
        word_text == Get(word, "word", "")
        word_start == Get(word, "start", 0)
        word_end == Get(word, "end", 0)
        cur == st.current_segment
        grown == IF cur.text = ""
                 THEN [cur EXCEPT !.start = word_start, !.text = word_text,
                                  !.words = <<i>>]
                 ELSE [cur EXCEPT !.text = cur.text \o " " \o word_text,
                                  !.words = Append(cur.words, i)]
        word_count == st.word_count + 1
    IN IF EndsSentence(word_text) \/ word_count >= max_words
       THEN [current_segment |-> NewSegment,
             caption_segments |->
                 Append(st.caption_segments,
                        [grown EXCEPT !.end = word_end,
                                      !.text = _format_caption_text(grown.text)]),
             word_count |-> 0]
       ELSE [st EXCEPT !.current_segment = grown, !.word_count = word_count]

RECURSIVE CaptionLoop(_, _, _)
CaptionLoop(words, i, st) ==
    IF i > Len(words) THEN st
    ELSE CaptionLoop(words, i + 1, CaptionStep(words, i, st))

_create_caption_segments(words) ==
    LET st == CaptionLoop(words, 1,
                  [current_segment |-> NewSegment, caption_segments |-> <<>>,
                   word_count |-> 0])
        cur == st.current_segment
    IN IF cur.text # ""
       THEN Append(st.caption_segments,
                   [cur EXCEPT
                       !.end = Get(words[cur.words[Len(cur.words)]], "end", 0),
                       !.text = _format_caption_text(cur.text)])
       ELSE st.caption_segments

-----------------------------------------------------------------------------
(* format_timestamp *)

Pad2(n) == IF n < 10 THEN "0" \o ToString(n) ELSE ToString(n)
Pad3(n) == IF n < 100 THEN "0" \o Pad2(n) ELSE ToString(n)

\* The format of the seconds and microseconds fields of a timedelta.
FormatParts(td_seconds, td_microseconds) ==
    LET hours == td_seconds \div 3600
        remainder == td_seconds % 3600
        minutes == remainder \div 60
        secs == remainder % 60
        milliseconds == td_microseconds \div 1000
    IN Pad2(hours) \o ":" \o Pad2(minutes) \o ":" \o Pad2(secs) \o ","
       \o Pad3(milliseconds)

\* A seconds value is a pair: its whole seconds and its fraction in tenths
\* of a microsecond (0 .. 9999999).
Ticks(t) == [whole |-> t \div 20, frac |-> (t % 20) * 500000]

\* datetime.timedelta(seconds=...): the fraction is rounded to the nearest
\* microsecond (half to even) and carried into the seconds; the days are
\* kept apart from the seconds of the day.
timedelta(s) ==
    LET q == s.frac \div 10
        r == s.frac % 10
        us == IF r > 5 \/ (r = 5 /\ q % 2 = 1) THEN q + 1 ELSE q
        total == s.whole + us \div 1000000
    IN [days |-> total \div 86400, seconds |-> total % 86400,
        microseconds |-> us % 1000000]

\* format_timestamp of a seconds value.
FormatTimestamp(s) ==
    LET td == timedelta(s)
    IN FormatParts(td.seconds, td.microseconds)

\* format_timestamp of a time in ticks.
format_timestamp(ticks) == FormatTimestamp(Ticks(ticks))

-----------------------------------------------------------------------------
(* convert_to_srt *)

\* key in d
Has(d, key) == key \in DOMAIN d

SrtEntry(counter, start, end, text) ==
    ToString(counter) \o "\n" \o format_timestamp(start) \o " --> "
    \o format_timestamp(end) \o "\n" \o text \o "\n\n"

KeyError(key) == "'" \o key \o "'"
IndexError == "list index out of range"

\* The entry the except clause appends.
ErrorEntry(message) ==
    "1\n00:00:00,000 --> 00:00:10,000\nTranscription processing error: "
    \o message \o "\n\n"

\* The state of the try block: the entries so far, the counter and the
\* message of the exception raised ("" while none is).
SrtStart == [srt_content |-> <<>>, counter |-> 1, exc |-> ""]

Raise(st, message) == [st EXCEPT !.exc = message]

Emit(st, start, end, text) ==
    [st EXCEPT !.srt_content = Append(@, SrtEntry(st.counter, start, end, text)),
               !.counter = @ + 1]

\* The first of the keys the record lacks, "" when it has them all.
FirstMissing(d, keys) ==
    IF \A n \in DOMAIN keys : Has(d, keys[n]) THEN ""
    ELSE keys[CHOOSE n \in DOMAIN keys :
                  /\ ~Has(d, keys[n])
                  /\ \A m \in 1..(n - 1) : Has(d, keys[m])]

RECURSIVE SentenceLoop(_, _, _)
SentenceLoop(sentences, n, st) ==
    IF n > Len(sentences) \/ st.exc # "" THEN st
    ELSE LET sentence == sentences[n]
             missing == FirstMissing(sentence, <<"start", "end", "text">>)
         IN SentenceLoop(sentences, n + 1,
                IF missing # "" THEN Raise(st, KeyError(missing))
                ELSE Emit(st, sentence.start, sentence.end, sentence.text))

RECURSIVE ParagraphLoop(_, _, _)
ParagraphLoop(paragraphs, n, st) ==
    IF n > Len(paragraphs) \/ st.exc # "" THEN st
    ELSE ParagraphLoop(paragraphs, n + 1,
             IF Has(paragraphs[n], "sentences")
             THEN SentenceLoop(paragraphs[n].sentences, 1, st)
             ELSE st)

RECURSIVE JoinSpace(_)
\* ' '.join(words)
JoinSpace(q) ==
    IF q = <<>> THEN ""
    ELSE IF Len(q) = 1 THEN q[1]
    ELSE q[1] \o " " \o JoinSpace(Tail(q))

\* A pause test that also splits at a gap of exactly 0.7 s.
SentencePauseInclusive(word, current_sentence) ==
    word.start - current_sentence.end >= SRT_PAUSE

\* float(word['start']) - float(current_sentence['end']) > 0.7
SentencePause(word, current_sentence) ==
    word.start - current_sentence.end > SRT_PAUSE

RECURSIVE WordLoop(_, _, _, _)
\* The loop of the words fallback; cur is current_sentence, with has_start
\* telling whether its start is set.
WordLoop(words, n, cur, st) ==
    IF st.exc # "" THEN [st |-> st, cur |-> cur]
    ELSE IF n > Len(words) THEN [st |-> st, cur |-> cur]
    ELSE LET word == words[n]
         IN IF ~cur.has_start
            THEN LET missing == FirstMissing(word, <<"start", "word", "end">>)
                 IN IF missing # ""
                    THEN WordLoop(words, n + 1, cur,
                                  Raise(st, KeyError(missing)))
                    ELSE WordLoop(words, n + 1,
                             [has_start |-> TRUE, start |-> word.start,
                              words |-> Append(cur.words, word.word),
                              end |-> word.end],
                             st)
            ELSE IF ~Has(word, "start")
            THEN WordLoop(words, n + 1, cur, Raise(st, KeyError("start")))
            ELSE IF SentencePause(word, cur)
            THEN LET emitted ==
                         Emit(st, cur.start, cur.end, JoinSpace(cur.words))
                     missing == FirstMissing(word, <<"word", "start", "end">>)
                 IN IF missing # ""
                    THEN WordLoop(words, n + 1, cur,
                                  Raise(emitted, KeyError(missing)))
                    ELSE WordLoop(words, n + 1,
                             [has_start |-> TRUE, start |-> word.start,
                              words |-> <<word.word>>, end |-> word.end],
                             emitted)
            ELSE LET missing == FirstMissing(word, <<"word", "end">>)
                 IN IF missing # ""
                    THEN WordLoop(words, n + 1, cur,
                                  Raise(st, KeyError(missing)))
                    ELSE WordLoop(words, n + 1,
                             [cur EXCEPT !.words = Append(@, word.word),
                                         !.end = word.end],
                             st)

WordsFallback(words, st) ==
    LET r == WordLoop(words, 1,
                 [has_start |-> FALSE, start |-> None, words |-> <<>>,
                  end |-> None], st)
    IN IF r.st.exc # "" THEN r.st
       ELSE IF r.cur.words # <<>>
       THEN [r.st EXCEPT !.srt_content =
                Append(@, SrtEntry(r.st.counter, r.cur.start, r.cur.end,
                                   JoinSpace(r.cur.words)))]
       ELSE r.st

\* alternatives.get('transcript', 'No transcription available')
LastResort(alternatives, st) ==
    LET transcript == IF Has(alternatives, "transcript")
                      THEN alternatives.transcript
                      ELSE "No transcription available"
    IN [st EXCEPT !.srt_content =
           Append(@, "1\n00:00:00,000 --> 99:59:59,999\n" \o transcript
                     \o "\n\n")]

\* The body of the try block on the first alternative.
FromAlternative(alternatives, st) ==
    IF Has(alternatives, "paragraphs")
    THEN IF ~Has(alternatives.paragraphs, "paragraphs")
         THEN Raise(st, KeyError("paragraphs"))
         ELSE ParagraphLoop(alternatives.paragraphs.paragraphs, 1, st)
    ELSE IF Has(alternatives, "words")
    THEN WordsFallback(alternatives.words, st)
    ELSE LastResort(alternatives, st)

\* The try block.
TryBlock(tr) ==
    IF ~Has(tr, "results") THEN SrtStart
    ELSE IF ~Has(tr.results, "channels") THEN SrtStart
    ELSE LET channels == tr.results.channels
         IN IF channels = <<>> THEN Raise(SrtStart, IndexError)
            ELSE IF ~Has(channels[1], "alternatives") THEN SrtStart
            ELSE IF channels[1].alternatives = <<>>
            THEN Raise(SrtStart, IndexError)
            ELSE FromAlternative(channels[1].alternatives[1], SrtStart)

\* srt_content when the file is written: the except clause appends its
\* entry to what the try block had appended.
SrtContent(tr) ==
    LET st == TryBlock(tr)
    IN IF st.exc # "" THEN Append(st.srt_content, ErrorEntry(st.exc))
       ELSE st.srt_content

RECURSIVE JoinAll(_)
\* ''.join(srt_content)
JoinAll(q) == IF q = <<>> THEN "" ELSE q[1] \o JoinAll(Tail(q))

-----------------------------------------------------------------------------
(* Inputs of the direct calls *)

\* A scored segment record as _score_segments builds it.
Scored(text, start_time, end_time, score) ==
    [text |-> text, start_time |-> start_time, end_time |-> end_time,
     duration |-> end_time - start_time, importance_score |-> score,
     description |-> "Contains relevant content for understanding the topic"]

\* Candidate clips: starting at 0 s, 20 s or 40 s and lasting 20 s or 50 s.
Clips == {Scored("a", st, st + d, 5) : st \in {0, 400, 800}, d \in {400, 1000}}

\* Score-sorted lists: every clip list with scores 6 down to a cut, 5 after.
ScoredLists ==
    {[n \in DOMAIN q |-> [q[n] EXCEPT !.importance_score =
                                          IF n <= cut THEN 6 ELSE 5]] :
        q \in SeqsUpTo(Clips, MaxSegs), cut \in {0, 1}}

\* Segments handed to _adjust_clip_durations: any start at or after 0 and
\* any duration, negative, under 15 s, within the band and over 60 s.
AdjustClips ==
    {Scored("a", st, st + d, 5) :
        st \in {0, 20, 800},
        d \in {-100, 200, 240, 300, 1200, 1240, 2000}}

\* The record d without its key.
Without(d, key) == [x \in (DOMAIN d) \ {key} |-> d[x]]

\* Word streams with a malformed word record: one word of a stream of 12
\* words lacks its text, its start or its end.
MalformedStreams ==
    UNION {{[w EXCEPT ![k] = Without(w[k], key)] :
                k \in 1..12, key \in {"word", "start", "end"}} :
            w \in {v \in RunStreams : Len(v) = 12}}

\* A transcript whose first channel has the one alternative.
Wrap(alternatives) ==
    [results |-> [channels |-> <<[alternatives |-> <<alternatives>>]>>]]

\* Transcripts handed to analyze_transcript: {} and every level of missing
\* or empty nesting, alternatives without the text or without the words,
\* and alternatives with the text and a word stream.
AnalyzeTranscripts ==
    {<<>>,
     [metadata |-> <<>>],
     [results |-> <<>>],
     [results |-> [channels |-> <<>>]],
     [results |-> [channels |-> <<[detected_language |-> "en"]>>]],
     [results |-> [channels |-> <<[alternatives |-> <<>>]>>]],
     Wrap(<<>>),
     Wrap([transcript |-> "transcript"]),
     Wrap([transcript |-> "", words |-> Timed(Flatten(
              <<[n |-> 6, gap |-> 0, dur |-> 120]>>, 1), 1, 0)]),
     Wrap([words |-> Timed(Flatten(
              <<[n |-> 6, gap |-> 0, dur |-> 120]>>, 1), 1, 0)])}
    \cup {Wrap([transcript |-> "transcript", words |-> w]) :
            w \in RunStreams \cup MalformedStreams}

-----------------------------------------------------------------------------
(* Calls *)

NoSrt ==
    /\ transcription_result = <<>>
    /\ srt_content = <<>>
    /\ srt_file = ""
    /\ caught = ""

NoTimestamp ==
    /\ seconds = <<>>
    /\ timestamp = ""

Idle ==
    /\ pc = "call"
    /\ NoSrt
    /\ NoTimestamp
    /\ raised = ""
    /\ caption_segments = <<>>
    /\ segments = <<>>
    /\ merged_segments = <<>>
    /\ selected_segments = <<>>
    /\ adjusted_segments = <<>>
    /\ result = <<>>

InitSegments ==
    /\ entry = "_create_meaningful_segments"
    /\ all_words \in FreeStreams \cup RunStreams
    /\ full_transcript = ""
    /\ max_clips = 0
    /\ scored_segments = <<>>
    /\ adjust_input = <<>>
    /\ transcript_data = <<>>
    /\ score_input = <<>>
    /\ Idle

InitAnalyze ==
    /\ entry = "analyze_transcript"
    /\ transcript_data \in AnalyzeTranscripts
    /\ all_words = <<>>
    /\ full_transcript = ""
    /\ max_clips \in 0..MaxClips
    /\ score_input = <<>>
    /\ scored_segments = <<>>
    /\ adjust_input = <<>>
    /\ Idle

InitSelect ==
    /\ entry = "_select_top_segments"
    /\ all_words = <<>>
    /\ full_transcript = ""
    /\ max_clips \in 0..MaxClips
    /\ scored_segments \in ScoredLists
    /\ adjust_input = <<>>
    /\ transcript_data = <<>>
    /\ score_input = <<>>
    /\ Idle

InitAdjust ==
    /\ entry = "_adjust_clip_durations"
    /\ all_words = <<>>
    /\ full_transcript = ""
    /\ max_clips = 0
    /\ scored_segments = <<>>
    /\ adjust_input \in SeqsUpTo(AdjustClips, MaxAdjust)
    /\ transcript_data = <<>>
    /\ score_input = <<>>
    /\ Idle

Init == InitAnalyze \/ InitSelect \/ InitAdjust

CreateMeaningfulSegmentsCall ==
    /\ entry = "_create_meaningful_segments"
    /\ pc = "call"
    /\ segments' = FirstPass(all_words)
    /\ merged_segments' = MergePass(segments')
    /\ pc' = "done"
    /\ UNCHANGED <<entry, all_words, full_transcript, max_clips,
                   scored_segments, selected_segments, adjust_input,
                   adjusted_segments, result, srtVars, transcript_data,
                   raised, score_input, caption_segments, tsVars>>

analyze_transcript ==
    /\ entry = "analyze_transcript"
    /\ pc = "call"
    /\ pc' = "done"
    /\ LET extracted == Extract(transcript_data)
       IN /\ all_words' = extracted.all_words
          /\ full_transcript' = extracted.full_transcript
          /\ IF extracted.exc # ""
             THEN /\ result' = ExceptClause(extracted.exc).result
                  /\ raised' = ExceptClause(extracted.exc).raised
                  /\ UNCHANGED <<segments, merged_segments, score_input,
                                 scored_segments, selected_segments,
                                 adjust_input, adjusted_segments>>
             ELSE IF full_transcript' = "" \/ all_words' = <<>>
             THEN /\ result' = <<>>
                  /\ raised' = ""
                  /\ UNCHANGED <<segments, merged_segments, score_input,
                                 scored_segments, selected_segments,
                                 adjust_input, adjusted_segments>>
             ELSE /\ segments' = FirstPass(all_words')
                  /\ merged_segments' = MergePass(segments')
                  /\ score_input' = merged_segments'
                  /\ LET run == SelectRun(_score_segments(score_input'),
                                          max_clips)
                     IN /\ scored_segments' = run.scored
                        /\ selected_segments' = run.selected
                  /\ adjust_input' = AdjustInputAfter(selected_segments')
                  /\ adjusted_segments' =
                         _adjust_clip_durations(selected_segments')
                  /\ result' = SortByStart(adjusted_segments')
                  /\ raised' = ""
    /\ UNCHANGED <<entry, max_clips, srtVars, transcript_data,
                   caption_segments, tsVars>>

SelectTopSegmentsCall ==
    /\ entry = "_select_top_segments"
    /\ pc = "call"
    /\ selected_segments' = _select_top_segments(scored_segments, max_clips)
    /\ scored_segments' = SelectRun(scored_segments, max_clips).scored
    /\ pc' = "done"
    /\ UNCHANGED <<entry, all_words, full_transcript, max_clips, segments,
                   merged_segments, adjust_input,
                   adjusted_segments, result, srtVars, transcript_data,
                   raised, score_input, caption_segments, tsVars>>

AdjustClipDurationsCall ==
    /\ entry = "_adjust_clip_durations"
    /\ pc = "call"
    /\ adjusted_segments' = _adjust_clip_durations(adjust_input)
    /\ adjust_input' = AdjustInputAfter(adjust_input)
    /\ pc' = "done"
    /\ UNCHANGED <<entry, all_words, full_transcript, max_clips, segments,
                   merged_segments, scored_segments, selected_segments,
                   result, srtVars, transcript_data, raised,
                   score_input, caption_segments, tsVars>>

Next == analyze_transcript \/ SelectTopSegmentsCall \/ AdjustClipDurationsCall

Spec == Init /\ [][Next]_vars

NextSegments == CreateMeaningfulSegmentsCall

SpecSegments == InitSegments /\ [][NextSegments]_vars

-----------------------------------------------------------------------------
(* Transcripts handed to convert_to_srt *)

\* Sentences: well formed, or lacking start, or lacking text.
SentenceChoices ==
    {[start |-> 0, end |-> 20, text |-> "x"],
     [end |-> 20, text |-> "x"],
     [start |-> 0, end |-> 20]}

\* Paragraphs: with a sentences list, or without the key.
ParagraphChoices ==
    {[sentences |-> q] : q \in SeqsUpTo(SentenceChoices, MaxSentences)}
        \cup {[num_words |-> 0]}

\* Words: well formed 0.5 s, 0.65 s, 0.7 s or 0.75 s after the word before,
\* or lacking start, or lacking word.  A gap of 0.7 s is one whose float
\* difference is the float 0.7 (1.7 - 1.0); decimal times whose floats lie
\* further apart (2.2 - 1.5 = 0.7000000000000002) are a longer gap.
SrtWordChoices ==
    [kind : {"ok"}, gap : {10, 13, 14, 15}]
        \cup [kind : {"no_start", "no_word"}, gap : {10}]

RECURSIVE SrtWords(_, _, _)
SrtWords(choices, i, t) ==
    IF i > Len(choices) THEN <<>>
    ELSE LET c == choices[i]
             start == t + c.gap
             end == start + 10
             w == IF c.kind = "ok"
                  THEN [word |-> "hi", start |-> start, end |-> end]
                  ELSE IF c.kind = "no_start"
                  THEN [word |-> "hi", end |-> end]
                  ELSE [start |-> start, end |-> end]
         IN <<w>> \o SrtWords(choices, i + 1, end)

\* The first alternative: with paragraphs, with words only, with the
\* transcript text only, empty, or with a paragraphs entry that lacks its
\* paragraphs list.
Alternatives ==
    {[transcript |-> "raw", words |-> <<>>,
      paragraphs |-> [transcript |-> "raw", paragraphs |-> ps]] :
        ps \in SeqsUpTo(ParagraphChoices, MaxParagraphs)}
    \cup {[transcript |-> "raw", words |-> SrtWords(c, 1, 0)] :
            c \in SeqsUpTo(SrtWordChoices, MaxSrtWords)}
    \cup {[transcript |-> "raw"], <<>>,
          [transcript |-> "raw", paragraphs |-> [transcript |-> "raw"]]}

\* Transcript shapes: {} and every level of missing or empty nesting.
Transcripts ==
    {<<>>,
     [metadata |-> <<>>],
     [results |-> <<>>],
     [results |-> [channels |-> <<>>]],
     [results |-> [channels |-> <<[detected_language |-> "en"]>>]],
     [results |-> [channels |-> <<[alternatives |-> <<>>]>>]]}
    \cup {[results |-> [channels |-> <<[alternatives |-> <<a>>]>>]] :
            a \in Alternatives}

InitSrt ==
    /\ entry = "convert_to_srt"
    /\ pc = "call"
    /\ transcription_result \in Transcripts
    /\ srt_content = <<>>
    /\ srt_file = ""
    /\ caught = ""
    /\ all_words = <<>>
    /\ full_transcript = ""
    /\ max_clips = 0
    /\ segments = <<>>
    /\ merged_segments = <<>>
    /\ scored_segments = <<>>
    /\ selected_segments = <<>>
    /\ adjust_input = <<>>
    /\ adjusted_segments = <<>>
    /\ result = <<>>
    /\ transcript_data = <<>>
    /\ raised = ""
    /\ score_input = <<>>
    /\ caption_segments = <<>>
    /\ NoTimestamp

\* convert_to_srt with an output_path whose directory can be created and
\* written.
convert_to_srt ==
    /\ entry = "convert_to_srt"
    /\ pc = "call"
    /\ caught' = TryBlock(transcription_result).exc
    /\ srt_content' = SrtContent(transcription_result)
    /\ srt_file' = JoinAll(srt_content')
    /\ pc' = "done"
    /\ UNCHANGED <<entry, all_words, full_transcript, max_clips, segments,
                   merged_segments, scored_segments, selected_segments,
                   adjust_input, adjusted_segments, result,
                   transcription_result, transcript_data, raised,
                   score_input, caption_segments, tsVars>>

NextSrt == convert_to_srt

SpecSrt == InitSrt /\ [][NextSrt]_vars

-----------------------------------------------------------------------------
(* Segments handed to _score_segments *)

\* A segment: a text without or with a topic keyword, lasting 9 s, 10 s or
\* 15 s.
ScoreChoices == [text : {"x", "y", "key"}, dur : {180, 200, 300}]

RECURSIVE Laid(_, _, _)
\* The segments of a sequence of choices, laid out 2 s apart from time t.
Laid(choices, i, t) ==
    IF i > Len(choices) THEN <<>>
    ELSE <<[text |-> choices[i].text, start |-> t,
            end |-> t + choices[i].dur, words |-> <<>>]>>
         \o Laid(choices, i + 1, t + choices[i].dur + 40)

\* Lists of such segments, and single segments of every duration around
\* the thresholds of the filter and of the base score.
ScoreLists ==
    {Laid(c, 1, 0) : c \in SeqsUpTo(ScoreChoices, MaxScoreSegs)}
    \cup {Laid(<<[text |-> text, dur |-> d]>>, 1, 0) :
            text \in {"x", "Key",
                      "the key concept is essential and this theory is a critical summary"},
            d \in {280, 1200, 1220, 1800, 1820}}

InitScore ==
    /\ entry = "_score_segments"
    /\ all_words = <<>>
    /\ full_transcript = ""
    /\ max_clips = 0
    /\ score_input \in ScoreLists
    /\ scored_segments = <<>>
    /\ adjust_input = <<>>
    /\ transcript_data = <<>>
    /\ Idle

ScoreSegmentsCall ==
    /\ entry = "_score_segments"
    /\ pc = "call"
    /\ scored_segments' = _score_segments(score_input)
    /\ pc' = "done"
    /\ UNCHANGED <<entry, all_words, full_transcript, max_clips, segments,
                   merged_segments, selected_segments, adjust_input,
                   adjusted_segments, result, srtVars, transcript_data,
                   raised, score_input, caption_segments, tsVars>>

NextScore == ScoreSegmentsCall

SpecScore == InitScore /\ [][NextScore]_vars

-----------------------------------------------------------------------------
(* Words handed to _create_caption_segments *)

\* A caption word: empty, plain, or ending a sentence; 1 s long, no gaps.
CaptionWordChoices == [word : {"", "a", "a."}, gap : {0}, dur : {20}]

\* Up to one freely chosen word, then a run of n plain words.
CaptionRun(first, n) ==
    first \o [k \in 1..n |-> [word |-> "a", gap |-> 0, dur |-> 20]]

\* Short sequences of freely chosen words, and runs of 9 words or more with
\* up to one freely chosen word before and after.
CaptionStreams ==
    {Timed(c, 1, 0) : c \in SeqsUpTo(CaptionWordChoices, MaxCaptionWords)}
    \cup {Timed(CaptionRun(first, n) \o last, 1, 0) :
            first \in SeqsUpTo(CaptionWordChoices, 1),
            last \in SeqsUpTo(CaptionWordChoices, 1),
            n \in 9..MaxCaptionRun}

InitCaptions ==
    /\ entry = "_create_caption_segments"
    /\ all_words \in CaptionStreams
    /\ full_transcript = ""
    /\ max_clips = 0
    /\ scored_segments = <<>>
    /\ adjust_input = <<>>
    /\ transcript_data = <<>>
    /\ score_input = <<>>
    /\ Idle

CreateCaptionSegmentsCall ==
    /\ entry = "_create_caption_segments"
    /\ pc = "call"
    /\ caption_segments' = _create_caption_segments(all_words)
    /\ pc' = "done"
    /\ UNCHANGED <<entry, all_words, full_transcript, max_clips, segments,
                   merged_segments, scored_segments, selected_segments,
                   adjust_input, adjusted_segments, result, srtVars,
                   transcript_data, raised, score_input, tsVars>>

NextCaptions == CreateCaptionSegmentsCall

SpecCaptions == InitCaptions /\ [][NextCaptions]_vars

-----------------------------------------------------------------------------
(* Times handed to format_timestamp *)

\* Whole seconds around every unit: the minute, the hour, the day and the
\* 100 hours the format has room for.
WholeSeconds ==
    {0, 1, 59, 60, 61, 3599, 3600, 3661, 86399, 86400, 90000, 359999}

\* Fractions: none, .2345, .999, and fractions within a microsecond of the
\* next millisecond and of the next second.
Fractions == {0, 2345000, 9990000, 9994, 5000004, 9999994, 9999996}

InitTimestamp ==
    /\ entry = "format_timestamp"
    /\ pc = "call"
    /\ seconds \in [whole : WholeSeconds, frac : Fractions]
    /\ timestamp = ""
    /\ NoSrt
    /\ all_words = <<>>
    /\ full_transcript = ""
    /\ max_clips = 0
    /\ segments = <<>>
    /\ merged_segments = <<>>
    /\ scored_segments = <<>>
    /\ selected_segments = <<>>
    /\ adjust_input = <<>>
    /\ adjusted_segments = <<>>
    /\ result = <<>>
    /\ transcript_data = <<>>
    /\ raised = ""
    /\ score_input = <<>>
    /\ caption_segments = <<>>

FormatTimestampCall ==
    /\ entry = "format_timestamp"
    /\ pc = "call"
    /\ timestamp' = FormatTimestamp(seconds)
    /\ pc' = "done"
    /\ UNCHANGED <<entry, all_words, full_transcript, max_clips, segments,
                   merged_segments, scored_segments, selected_segments,
                   adjust_input, adjusted_segments, result, srtVars,
                   transcript_data, raised, score_input, caption_segments,
                   seconds>>

NextTimestamp == FormatTimestampCall

SpecTimestamp == InitTimestamp /\ [][NextTimestamp]_vars

-----------------------------------------------------------------------------
(* Properties of _create_meaningful_segments *)

SegmentsReturned == entry = "_create_meaningful_segments" /\ pc = "done"

Range(q) == {q[i] : i \in DOMAIN q}

\* A pause before word i: the gap the first pass tests.
PauseBefore(i) == i > 1 /\ all_words[i].start - all_words[i - 1].end > PAUSE

\* The positions of the run of words between pauses that holds word i.
RunOf(i) ==
    {j \in DOMAIN all_words :
        \A k \in DOMAIN all_words :
            (k > i /\ k <= j) \/ (k > j /\ k <= i) => ~PauseBefore(k)}

\* C6: every returned segment starts at the start of the first word of its
\* words list and ends at the end of the last word of its words list.
C6_StartEndMatchWords ==
    SegmentsReturned =>
        \A n \in DOMAIN merged_segments :
            LET s == merged_segments[n]
            IN /\ s.words # <<>>
               /\ s.start = all_words[s.words[1]].start
               /\ s.end = all_words[s.words[Len(s.words)]].end

\* C7: every returned segment has at least 6 words, and no word of a run of
\* 5 or fewer words between pauses is in a returned segment.
C7_AtLeastSixWords ==
    SegmentsReturned =>
        \A n \in DOMAIN merged_segments :
            LET s == merged_segments[n]
            IN /\ Len(s.words) >= 6
               /\ \A i \in Range(s.words) : Cardinality(RunOf(i)) >= 6

\* C21: the words of every returned segment, merged ones included, are a
\* contiguous run all_words[i..j] of the input, and its text is their texts
\* joined by single spaces.
C21_ContiguousRun ==
    SegmentsReturned =>
        \A n \in DOMAIN merged_segments :
            LET s == merged_segments[n]
            IN /\ s.words # <<>>
               /\ s.words = [k \in 1..Len(s.words) |-> s.words[1] + k - 1]
               /\ s.text = JoinSpace([k \in 1..Len(s.words) |->
                                         all_words[s.words[k]].word])

Span(s) == s.end - s.start

\* C8: no two adjacent segments of the merge pass output both span less
\* than 45 s, unless one of the two is the final segment.
C8_NoAdjacentShortPair ==
    SegmentsReturned =>
        \A n \in 1..(Len(merged_segments) - 2) :
            ~(Span(merged_segments[n]) < MERGE_SPAN
              /\ Span(merged_segments[n + 1]) < MERGE_SPAN)

\* C8 as amended: a segment of the merge pass output is closed only when
\* the first-pass segment that starts its successor ends 45 s or more after
\* its own start; its own span may be shorter, and so may its successor's.
C8_SuccessorNotAbsorbable ==
    SegmentsReturned =>
        \A n \in 1..(Len(merged_segments) - 1) :
            \E f \in Range(segments) :
                /\ f.words[1] = merged_segments[n + 1].words[1]
                /\ f.end - merged_segments[n].start >= MERGE_SPAN

\* Two adjacent segments that both span less than 45 s, neither the final
\* one.
C8_Witness ==
    /\ SegmentsReturned
    /\ \E n \in 1..(Len(merged_segments) - 2) :
           /\ Span(merged_segments[n]) < MERGE_SPAN
           /\ Span(merged_segments[n + 1]) < MERGE_SPAN

-----------------------------------------------------------------------------
(* Properties of the highlight pipeline *)

Analyzed == entry = "analyze_transcript" /\ pc = "done"
Selected == entry = "_select_top_segments" /\ pc = "done"
Adjusted == entry = "_adjust_clip_durations" /\ pc = "done"

\* No two distinct segments of the list overlap.
PairwiseDisjoint(q) ==
    \A m, n \in DOMAIN q : m # n => ~Overlaps(q[m], q[n])

\* C1: for max_clips >= 1, no two distinct segments of the list returned by
\* analyze_transcript overlap.
C1_HighlightsDisjoint ==
    (Analyzed /\ max_clips >= 1) => PairwiseDisjoint(result)

\* C2: for every score-sorted list and every k, no two distinct segments
\* returned by _select_top_segments overlap.
C2_SelectionDisjoint ==
    Selected => PairwiseDisjoint(selected_segments)

InBand(s) ==
    /\ MIN_CLIP <= s.end_time - s.start_time
    /\ s.end_time - s.start_time <= MAX_CLIP
    /\ s.duration = s.end_time - s.start_time

\* C3: when the selected segments start at or after 0, every segment
\* _adjust_clip_durations returns (and so analyze_transcript) lasts between
\* 15 s and 60 s, with duration = end_time - start_time.
C3_DurationsInBand ==
    (Analyzed /\ \A n \in DOMAIN selected_segments :
                     selected_segments[n].start_time >= 0)
        => /\ \A n \in DOMAIN adjusted_segments : InBand(adjusted_segments[n])
           /\ \A n \in DOMAIN result : InBand(result[n])

\* C9: _select_top_segments returns at most k segments, for every list and
\* every k >= 0, and analyze_transcript returns at most max_clips.
C9_AtMostMaxClips ==
    /\ (Selected \/ Analyzed) => Len(selected_segments) <= max_clips
    /\ Analyzed => Len(result) <= max_clips

\* The selection was cut short by max_clips: the greedy pass stopped with
\* candidates left, or the list was longer than max_clips.
C9_Witness ==
    /\ Selected
    /\ Len(scored_segments) > max_clips
    /\ Len(selected_segments) = max_clips
    /\ max_clips >= 1
    /\ PairwiseDisjoint(scored_segments)

\* C10: every segment handed to _adjust_clip_durations with start_time >= 0
\* comes back with start_time >= 0, whatever its duration.
C10_StartNeverNegative ==
    (Adjusted \/ Analyzed) =>
        \A n \in DOMAIN adjusted_segments :
            adjust_input[n].start_time >= 0
                => adjusted_segments[n].start_time >= 0

\* A clip under 15 s whose padded start would fall before 0, and a clip
\* over 60 s, both adjusted in one call.
C10_Witness ==
    /\ Adjusted
    /\ \E n \in DOMAIN adjust_input :
           /\ adjust_input[n].duration < MIN_CLIP
           /\ adjust_input[n].start_time
                  - (MIN_CLIP - adjust_input[n].duration) \div 2 < 0
           /\ adjusted_segments[n].start_time = 0
    /\ \E n \in DOMAIN adjust_input :
           /\ adjust_input[n].duration > MAX_CLIP
           /\ adjusted_segments[n].duration = MAX_CLIP

\* C17: the list analyze_transcript returns is in ascending order of
\* start_time, whatever the order the selection came in and however the
\* adjustment of the durations moved the starts.
C17_SortedByStart ==
    Analyzed =>
        \A m, n \in DOMAIN result :
            m < n => result[m].start_time <= result[n].start_time

\* The selection came in score order with a later segment first, and the
\* adjustment moved a start.
C17_Witness ==
    /\ Analyzed
    /\ Len(result) >= 2
    /\ \E m, n \in DOMAIN adjusted_segments :
           m < n /\ adjusted_segments[m].start_time
                        > adjusted_segments[n].start_time
    /\ \E n \in DOMAIN adjusted_segments :
           adjusted_segments[n].start_time # adjust_input[n].start_time

GreedySelection ==
    GreedyLoop(scored_segments, 2, max_clips, <<scored_segments[1]>>)

\* C20: every segment the repair pass adds has duration = end_time -
\* start_time >= 15 s and lies within its candidate: it is the candidate
\* with the start moved, if at all, later to 1 s after the end of a selected
\* segment the candidate overlaps, and the end moved, if at all, earlier to
\* 1 s before the start of one.
C20_RepairedWithinCandidate ==
    (Selected /\ Len(scored_segments) > max_clips) =>
        \A n \in (Len(GreedySelection) + 1)..Len(selected_segments) :
            LET a == selected_segments[n]
                before == SubSeq(selected_segments, 1, n - 1)
            IN /\ a.duration = a.end_time - a.start_time
               /\ a.duration >= MIN_CLIP
               /\ \E j \in DOMAIN scored_segments :
                      LET c == scored_segments[j]
                          hit == {m \in DOMAIN before : Overlaps(c, before[m])}
                      IN /\ c \notin Range(before)
                         /\ a.text = c.text
                         /\ a.importance_score = c.importance_score
                         /\ a.description = c.description
                         /\ c.start_time <= a.start_time
                         /\ a.end_time <= c.end_time
                         /\ \/ a.start_time = c.start_time
                            \/ \E m \in hit :
                                   a.start_time = before[m].end_time + BUFFER
                         /\ \/ a.end_time = c.end_time
                            \/ \E m \in hit :
                                   a.end_time = before[m].start_time - BUFFER

\* The repair pass added a segment it had shrunk: the selection holds a
\* segment, after those of the greedy pass, that is none of the candidates.
C20_Witness ==
    /\ Selected
    /\ Len(scored_segments) > max_clips
    /\ \E n \in (Len(GreedySelection) + 1)..Len(selected_segments) :
           selected_segments[n] \notin Range(scored_segments)

\* C23: _select_top_segments and _adjust_clip_durations leave their input
\* unchanged: after the call the input list has the same records, field
\* for field, in the same order; what was shrunk or clamped is a new record.
C23_InputsUnchanged ==
    [][/\ (entry = "_select_top_segments" /\ pc = "call" /\ pc' = "done")
           => scored_segments' = scored_segments
       /\ (entry = "_adjust_clip_durations" /\ pc = "call" /\ pc' = "done")
           => adjust_input' = adjust_input]_vars

\* The selection holds a candidate the repair pass shortened from the
\* front, and the candidate is in the input list as it was.
C23_Witness ==
    /\ Selected
    /\ Len(scored_segments) > max_clips
    /\ \E j \in DOMAIN scored_segments, n \in DOMAIN selected_segments :
           /\ selected_segments[n].start_time > scored_segments[j].start_time
           /\ selected_segments[n].end_time = scored_segments[j].end_time
           /\ selected_segments[n].duration < scored_segments[j].duration
           /\ scored_segments[j].duration
                  = scored_segments[j].end_time - scored_segments[j].start_time

-----------------------------------------------------------------------------
(* Properties of convert_to_srt *)

Converted == entry = "convert_to_srt" /\ pc = "done"

\* C4: for every transcript shape the subtitle text is a non-empty string
\* (and the exceptions of the assembly are caught).
C4_SubtitleTextNonEmpty == Converted => srt_file # ""

\* C5: whenever the assembly raises, the subtitle text is exactly the one
\* diagnostic entry: index 1, 0 s to 10 s, the error message.
C5_OnlyDiagnosticEntry ==
    (Converted /\ caught # "") => srt_file = ErrorEntry(caught)

\* The first alternative of the transcript has the transcript text and
\* neither words nor sentences: no words entry or an empty one, and no
\* paragraphs entry, or one without paragraphs, or paragraphs without
\* sentences.
OnlyTranscriptText(tr) ==
    /\ Has(tr, "results")
    /\ Has(tr.results, "channels")
    /\ tr.results.channels # <<>>
    /\ Has(tr.results.channels[1], "alternatives")
    /\ tr.results.channels[1].alternatives # <<>>
    /\ LET a == tr.results.channels[1].alternatives[1]
       IN /\ Has(a, "transcript")
          /\ ~Has(a, "words") \/ a.words = <<>>
          /\ \/ ~Has(a, "paragraphs")
             \/ ~Has(a.paragraphs, "paragraphs")
             \/ \A n \in DOMAIN a.paragraphs.paragraphs :
                    \/ ~Has(a.paragraphs.paragraphs[n], "sentences")
                    \/ a.paragraphs.paragraphs[n].sentences = <<>>

\* C19: when the alternative has neither sentences nor words, the subtitle
\* text is the one entry numbered 1, from 00:00:00,000 to 99:59:59,999,
\* with the transcript text.
C19_WholeDurationEntry ==
    (Converted /\ OnlyTranscriptText(transcription_result)) =>
        srt_file = "1\n00:00:00,000 --> 99:59:59,999\n"
                   \o transcription_result.results.channels[1]
                          .alternatives[1].transcript
                   \o "\n\n"

\* The words of the first alternative.
SrtInputWords ==
    transcription_result.results.channels[1].alternatives[1].words

\* convert_to_srt takes the words fallback on well-formed words: the first
\* alternative has no paragraphs entry and has words, each with its text,
\* start and end.
WordsFallbackTaken ==
    /\ Has(transcription_result, "results")
    /\ Has(transcription_result.results, "channels")
    /\ transcription_result.results.channels # <<>>
    /\ Has(transcription_result.results.channels[1], "alternatives")
    /\ transcription_result.results.channels[1].alternatives # <<>>
    /\ LET a == transcription_result.results.channels[1].alternatives[1]
       IN /\ ~Has(a, "paragraphs")
          /\ Has(a, "words")
          /\ \A i \in DOMAIN a.words :
                 Has(a.words[i], "word") /\ Has(a.words[i], "start")
                     /\ Has(a.words[i], "end")

\* The gap between word i and the word before it.
GapBefore(i) == SrtInputWords[i].start - SrtInputWords[i - 1].end

\* The words that begin an entry: the first, and every word more than
\* 0.7 s after the end of the word before it.
EntryStarts ==
    {i \in DOMAIN SrtInputWords : i = 1 \/ GapBefore(i) > SRT_PAUSE}

\* The first and the last word of the n-th entry.
EntryFirst(n) ==
    CHOOSE i \in EntryStarts :
        Cardinality({j \in EntryStarts : j <= i}) = n

EntryLast(n) ==
    IF n = Cardinality(EntryStarts) THEN Len(SrtInputWords)
    ELSE EntryFirst(n + 1) - 1

\* C22: in the words fallback two consecutive words are in the same entry
\* exactly when the later starts at most 0.7 s after the earlier ends; each
\* entry runs from its first word's start to its last word's end, its text
\* is its words joined by spaces, and the entries are numbered 1, 2, ..., n.
C22_EntriesSplitAtPauses ==
    (Converted /\ WordsFallbackTaken) =>
        /\ Len(srt_content) = Cardinality(EntryStarts)
        /\ \A n \in DOMAIN srt_content :
               srt_content[n] =
                   SrtEntry(n, SrtInputWords[EntryFirst(n)].start,
                            SrtInputWords[EntryLast(n)].end,
                            JoinSpace([k \in 1..(EntryLast(n) - EntryFirst(n) + 1)
                                |-> SrtInputWords[EntryFirst(n) + k - 1].word]))

\* Three words, the second 0.7 s after the first and in its entry, the
\* third 0.75 s after the second and in an entry of its own.
C22_Witness ==
    /\ Converted
    /\ WordsFallbackTaken
    /\ Len(SrtInputWords) = 3
    /\ GapBefore(2) = SRT_PAUSE
    /\ GapBefore(3) = SRT_PAUSE + 1
    /\ Len(srt_content) = 2

-----------------------------------------------------------------------------
(* Properties of _score_segments *)

ScoreReturned == entry = "_score_segments" /\ pc = "done"

\* Whether the scored record was made from the segment.
MadeFrom(scored, segment) ==
    /\ scored.text = segment.text
    /\ scored.start_time = segment.start
    /\ scored.end_time = segment.end

\* The place in the input list of the segment the n-th scored record was
\* made from (the segments of a list start at different times).
InputPlace(n) ==
    CHOOSE i \in DOMAIN score_input :
        MadeFrom(scored_segments[n], score_input[i])

\* C15: the returned list is in descending order of importance_score, and
\* segments of equal score are in their order in the input list.
C15_DescendingStable ==
    ScoreReturned =>
        \A m, n \in DOMAIN scored_segments :
            m < n =>
                LET a == scored_segments[m].importance_score
                    b == scored_segments[n].importance_score
                IN a > b \/ (a = b /\ InputPlace(m) < InputPlace(n))

\* The sort moved a segment ahead of an earlier one, and left two segments
\* of equal score in their input order.
C15_Witness ==
    /\ ScoreReturned
    /\ \E m, n \in DOMAIN scored_segments :
           m < n /\ InputPlace(m) > InputPlace(n)
    /\ \E m, n \in DOMAIN scored_segments :
           /\ m < n
           /\ scored_segments[m].importance_score
                  = scored_segments[n].importance_score
           /\ InputPlace(m) < InputPlace(n)

\* C16: no returned segment lasts under 10 s, and every input segment of
\* 10 s or more is returned exactly once.
C16_FilterUnderTen ==
    ScoreReturned =>
        /\ \A n \in DOMAIN scored_segments :
               /\ scored_segments[n].duration >= MIN_SCORED
               /\ scored_segments[n].end_time - scored_segments[n].start_time
                      >= MIN_SCORED
               /\ \E i \in DOMAIN score_input :
                      MadeFrom(scored_segments[n], score_input[i])
        /\ \A i \in DOMAIN score_input :
               score_input[i].end - score_input[i].start >= MIN_SCORED =>
                   Cardinality({n \in DOMAIN scored_segments :
                       MadeFrom(scored_segments[n], score_input[i])}) = 1

\* A list with a segment under 10 s, left out, and a segment of exactly
\* 10 s, returned.
C16_Witness ==
    /\ ScoreReturned
    /\ \E i \in DOMAIN score_input :
           /\ score_input[i].end - score_input[i].start < MIN_SCORED
           /\ \A n \in DOMAIN scored_segments :
                  ~MadeFrom(scored_segments[n], score_input[i])
    /\ \E n \in DOMAIN scored_segments :
           scored_segments[n].duration = MIN_SCORED

\* C24: the base score of a returned segment of duration d is 5 for
\* 15 s <= d <= 60 s, 3 for 60 s < d <= 90 s and 1 otherwise; its
\* importance_score is the base, content and position scores added up, an
\* integer from 1 to 20.
C24_BaseScoreAndRange ==
    ScoreReturned =>
        \A n \in DOMAIN scored_segments :
            LET scored == scored_segments[n]
                d == scored.duration
                base == scored.importance_score
                            - ContentScore(Lower(scored.text))
                            - PositionScore(score_input, scored)
            IN /\ (15 * 20 <= d /\ d <= 60 * 20) => base = 5
               /\ (60 * 20 < d /\ d <= 90 * 20) => base = 3
               /\ (d < 15 * 20 \/ d > 90 * 20) => base = 1
               /\ scored.importance_score \in 1..20

\* A segment of 60 s with five topic keywords or more, first in its list:
\* base 5, content 10, position 5.
C24_Witness ==
    /\ ScoreReturned
    /\ \E n \in DOMAIN scored_segments :
           /\ scored_segments[n].duration = 60 * 20
           /\ scored_segments[n].importance_score = 20

\* The position score of the segment at index i (0-based) of n.
PositionOf(i, n) ==
    IF i = 0 \/ i = n - 1 THEN 5
    ELSE IF \/ (3 * n <= 10 * i /\ 10 * i <= 4 * n)
            \/ (6 * n <= 10 * i /\ 10 * i <= 7 * n)
    THEN 3
    ELSE 0

\* C18: the position score of every returned segment is that of its own
\* index in the list passed in, also when two segments have the same text.
C18_PositionOfOwnIndex ==
    ScoreReturned =>
        \A n \in DOMAIN scored_segments :
            LET scored == scored_segments[n]
            IN scored.importance_score
                   - BaseScore(scored.duration)
                   - ContentScore(Lower(scored.text))
               = PositionOf(InputPlace(n) - 1, Len(score_input))

-----------------------------------------------------------------------------
(* Properties of _create_caption_segments *)

Captioned == entry = "_create_caption_segments" /\ pc = "done"

RECURSIVE ConcatWords(_, _)
\* The word lists of the lines from line n on, one after the other.
ConcatWords(lines, n) ==
    IF n > Len(lines) THEN <<>>
    ELSE lines[n].words \o ConcatWords(lines, n + 1)

\* C12: the caption lines split the words: their word lists one after the
\* other are the input sequence; a line is closed at its first word ending
\* in '.', '!' or '?' or at its 10th word, a trailing unclosed line is
\* emitted too; each line starts at its first word's start and ends at its
\* last word's end.
C12_LinesPartitionWords ==
    Captioned =>
        /\ ConcatWords(caption_segments, 1) = [i \in 1..Len(all_words) |-> i]
        /\ \A n \in DOMAIN caption_segments :
               LET line == caption_segments[n]
                   len == Len(line.words)
               IN /\ len >= 1
                  /\ len <= max_words
                  /\ \A k \in 1..(len - 1) :
                         ~EndsSentence(all_words[line.words[k]].word)
                  /\ n < Len(caption_segments) =>
                         \/ EndsSentence(all_words[line.words[len]].word)
                         \/ len = max_words
                  /\ line.start = all_words[line.words[1]].start
                  /\ line.end = all_words[line.words[len]].end

-----------------------------------------------------------------------------
(* Properties of format_timestamp *)

Formatted == entry = "format_timestamp" /\ pc = "done"

\* C11: for every t with 0 <= t < 360000 s, format_timestamp(t) is
\* HH:MM:SS,mmm with HH = floor(t / 3600), MM = floor(t / 60) mod 60,
\* SS = floor(t) mod 60 and mmm the fraction's milliseconds rounded down,
\* nothing rounding up at any unit.
C11_TruncatedFields ==
    (Formatted /\ seconds.whole < 360000) =>
        timestamp = Pad2(seconds.whole \div 3600) \o ":"
                    \o Pad2((seconds.whole \div 60) % 60) \o ":"
                    \o Pad2(seconds.whole % 60) \o ","
                    \o Pad3(seconds.frac \div 10000)

-----------------------------------------------------------------------------
(* Properties of analyze_transcript on any transcript *)

\* The transcript lacks results, channels (or has none), alternatives (or
\* has none), or words.
StructurallyAbsent(td) ==
    \/ ~Has(td, "results")
    \/ ~Has(td.results, "channels")
    \/ td.results.channels = <<>>
    \/ ~Has(td.results.channels[1], "alternatives")
    \/ td.results.channels[1].alternatives = <<>>
    \/ ~Has(td.results.channels[1].alternatives[1], "words")

\* C13: analyze_transcript lets no exception through: whatever the
\* transcript lacks and whatever a word record lacks it returns a list, the
\* empty list when results, channels, alternatives or words are absent.
C13_NeverRaises ==
    Analyzed =>
        /\ raised = ""
        /\ StructurallyAbsent(transcript_data) => result = <<>>

\* A call on a transcript with an empty channels list, whose IndexError the
\* except clause turned into the empty list.
C13_Witness ==
    /\ Analyzed
    /\ Has(transcript_data, "results")
    /\ Has(transcript_data.results, "channels")
    /\ transcript_data.results.channels = <<>>
    /\ result = <<>>
    /\ raised = ""

\* The words of all_words have non-decreasing start times, and each ends no
\* earlier than it starts (a missing time reads as 0, as the code reads it).
MonotoneStream ==
    \A i \in DOMAIN all_words :
        /\ Get(all_words[i], "end", 0) >= Get(all_words[i], "start", 0)
        /\ i > 1 => Get(all_words[i - 1], "start", 0)
                        <= Get(all_words[i], "start", 0)

\* C25: on a word stream with non-decreasing start times and end >= start
\* for each word, the segments of _create_meaningful_segments are in
\* strictly increasing time order and disjoint, a.end + 1.5 s < b.start for
\* each adjacent pair; the greedy pass of _select_top_segments then takes
\* the candidates in order without rejecting one, and the repair pass does
\* not run.
C25_SegmentsDisjointNoRepair ==
    (Analyzed /\ MonotoneStream) =>
        /\ \A n \in 1..(Len(merged_segments) - 1) :
               merged_segments[n].end + PAUSE < merged_segments[n + 1].start
        /\ \A m, n \in DOMAIN scored_segments :
               m # n => ~Overlaps(scored_segments[m], scored_segments[n])
        /\ Len(scored_segments) > max_clips =>
               /\ GreedySelection
                      = SubSeq(scored_segments, 1, Max(1, max_clips))
               /\ ~(/\ Len(GreedySelection) < max_clips
                     /\ Len(GreedySelection) < Len(scored_segments))
               /\ selected_segments
                      = SubSeq(scored_segments, 1, max_clips)

\* Three segments came out of a monotone stream and the greedy pass chose
\* two of the three candidates.
C25_Witness ==
    /\ Analyzed
    /\ MonotoneStream
    /\ Len(merged_segments) = 3
    /\ Len(scored_segments) = 3
    /\ max_clips = 2
    /\ Len(selected_segments) = 2

\* C26: on a word stream with non-decreasing start times and end >= start
\* for each word, every adjacent pair (a, b) of the merge-pass output has
\* b.end - a.start >= 45 s: the combined span of neighbours is bounded
\* below, not each segment's own span.
C26_NeighboursSpanMergeLimit ==
    (SegmentsReturned /\ MonotoneStream) =>
        \A n \in 1..(Len(merged_segments) - 1) :
            merged_segments[n + 1].end - merged_segments[n].start
                >= MERGE_SPAN

\* The merge pass absorbed a segment and returned two neighbours that each
\* span less than 45 s.
C26_Witness ==
    /\ SegmentsReturned
    /\ MonotoneStream
    /\ Len(merged_segments) < Len(segments)
    /\ \E n \in 1..(Len(merged_segments) - 1) :
           /\ Span(merged_segments[n]) < MERGE_SPAN
           /\ Span(merged_segments[n + 1]) < MERGE_SPAN

====
